---- MODULE Spec2Model ----
(***************************************************************************)
(* A model of scripts/tf_cnn_benchmarks/variable_mgr.py: the VariableMgr   *)
(* family that decides how per-replica gradients are combined and applied. *)
(*                                                                         *)
(* Five groups of variables:                                               *)
(*   - the run-time view of one distributed-replicated training step       *)
(*     (the ops built by append_apply_gradients_ops, run by W workers);    *)
(*   - the graph-construction view of a VariableMgr object: constructor,   *)
(*     preprocess_device_grads, get_gradients_to_apply;                    *)
(*   - the values of replicated variables over training steps;             *)
(*   - the variable collections of the graph, savable_variables and        *)
(*     get_post_init_ops;                                                  *)
(*   - the non-finite flag of automatic loss scaling.                      *)
(* Each specification fixes the groups it does not use.                    *)
(***************************************************************************)
EXTENDS Integers, Sequences, FiniteSets, TLC

VARIABLES
  \* ---- one distributed-replicated step, as run by the workers ----
  cluster,        \* [nW, nP, nD]: workers, parameters, local devices per worker
  applied,        \* set of <<w, i>>: worker w's apply_gradient_op for parameter i has run
  arrived,        \* set of <<w, i>>: w has put its tokens for barrier replicate_variable_i
  passed,         \* set of <<w, i>>: barrier replicate_variable_i has completed on w
  shadow,         \* shadow[i]: value of the shadow variable of parameter i on the ps
  updated_value,  \* updated_value[<<w, i>>]: <<result of v.read_value()>> on w
  replica_local,  \* replica_local[<<w, d, i>>]: the values assigned to device_grads[d][i][1]
                  \* on w, in the order of the assignments
  assigned,       \* set of <<w, i, d>>: the assign op of w for parameter i and local
                  \* device d has run
  \* ---- graph construction with one VariableMgr ----
  phase,          \* how far the caller has come: "start", "constructed", "preprocessed",
                  \* "returned" (get_gradients_to_apply has returned), or "raised"
  ctor_args,      \* [cls, all_reduce_spec]: the class and its constructor argument
  benchmark_cnn,  \* the benchmark_cnn object: [num_devices, hierarchical_copy, gradient_repacking]
  mgr,            \* the VariableMgr object: [cls, raised, all_reduce_spec]
  grad_matrix,    \* the gradient matrix (device_grads) handed to preprocess_device_grads
  pre,            \* what preprocess_device_grads returned (PreResult)
  asked_device,   \* the device_num argument of the last get_gradients_to_apply
  got,            \* what the last get_gradients_to_apply returned (GetResult)
  \* ---- training with replicated variables ----
  var_value,      \* var_value[v]: the value of variable v
  steps,          \* training steps completed
  pending,        \* the apply devices whose apply op of the current step has not run
  \* ---- the variable collections of the graph, and what is saved ----
  tf_graph,       \* [cls, num_gpus, global_variables, local_variables, trainable_variables]:
                  \* the manager's class, its towers and the names of the variables of
                  \* each collection
  savable,        \* <<what savable_variables returned>>, or NotRun
  post_init_ops,  \* <<what get_post_init_ops returned>>, or NotRun
  \* ---- automatic loss scaling ----
  enable_auto_loss_scale,  \* benchmark_cnn.enable_auto_loss_scale
  grad_has_inf_nan,        \* self.grad_has_inf_nan: None, or <<the flag>>
  handed          \* the grad_has_inf_nan handed to append_gradients_with_loss_scale,
                  \* one per append_apply_gradients_ops call

barrierVars ==
  <<cluster, applied, arrived, passed, shadow, updated_value, replica_local, assigned>>

buildVars == <<phase, ctor_args, benchmark_cnn, mgr, grad_matrix, pre, asked_device, got>>

trainVars == <<var_value, steps, pending>>

saveVars == <<tf_graph, savable, post_init_ops>>

lossVars == <<enable_auto_loss_scale, grad_has_inf_nan, handed>>

vars == <<barrierVars, buildVars, trainVars, saveVars, lossVars>>

\* The output of an op that has not run yet; an op that has run holds <<value>>.
NotRun == <<>>

----
(***************************************************************************)
(* Tensors, variables and Python lists.                                    *)
(* A tensor is [shape, elems]: elems are its values in row-major order.    *)
(* A call that raises returns [raised |-> <exception>, ...]; raised = ""   *)
(* is a normal return.                                                     *)
(***************************************************************************)
NoError == ""

RECURSIVE SumSeq(_)
SumSeq(s) == IF s = <<>> THEN 0 ELSE Head(s) + SumSeq(Tail(s))

RECURSIVE ProdSeq(_)
ProdSeq(s) == IF s = <<>> THEN 1 ELSE Head(s) * ProdSeq(Tail(s))

RECURSIVE ConcatAll(_)
ConcatAll(ss) == IF ss = <<>> THEN <<>> ELSE Head(ss) \o ConcatAll(Tail(ss))

Tensor(shape, elems) == [shape |-> shape, elems |-> elems]

\* tf.size(g)
TfSize(g) == Len(g.elems)

\* tf.shape(g)
TfShape(g) == g.shape

\* tf.reshape(g, [-1])
TfFlatten(g) == Tensor(<<Len(g.elems)>>, g.elems)

\* tf.reshape(g, shape): the element count must match the shape.
TfReshape(g, shape) ==
  IF ProdSeq(shape) = Len(g.elems)
  THEN [raised |-> NoError, value |-> Tensor(shape, g.elems)]
  ELSE [raised |-> "InvalidArgumentError", value |-> Tensor(<<0>>, <<>>)]

\* tf.concat(flat_grads, 0) of one-dimensional tensors
TfConcat(ts) ==
  LET e == ConcatAll([k \in 1..Len(ts) |-> ts[k].elems]) IN Tensor(<<Len(e)>>, e)

RECURSIVE SplitElems(_, _)
SplitElems(elems, sizes) ==
  IF sizes = <<>> THEN <<>>
  ELSE <<Tensor(<<Head(sizes)>>, SubSeq(elems, 1, Head(sizes)))>>
         \o SplitElems(SubSeq(elems, Head(sizes) + 1, Len(elems)), Tail(sizes))

\* tf.split(t, sizes) of a one-dimensional tensor: the sizes must be
\* non-negative and add up to its length.
TfSplit(t, sizes) ==
  IF (\A k \in 1..Len(sizes) : sizes[k] >= 0) /\ SumSeq(sizes) = Len(t.elems)
  THEN [raised |-> NoError, value |-> SplitElems(t.elems, sizes)]
  ELSE [raised |-> "InvalidArgumentError", value |-> <<>>]

\* tf.add_n(grads): the elementwise sum of tensors of one shape.
RECURSIVE AddN(_)
AddN(ts) ==
  IF Len(ts) = 1 THEN ts[1]
  ELSE LET r == AddN(Tail(ts)) IN
       Tensor(ts[1].shape, [k \in 1..Len(ts[1].elems) |-> ts[1].elems[k] + r.elems[k]])

\* grad * (1.0 / n), on the integers of this model.
ScaleDown(t, n) == Tensor(t.shape, [k \in 1..Len(t.elems) |-> t.elems[k] \div n])

\* A (gradient, variable) tuple.
GV(g, v) == [g |-> g, v |-> v]

\* The variable at position idx created in the scope of tower t ('v<t>/...'),
\* or the one shared variable of scope 'v' (tower = -1).
Var(tower, idx) == [tower |-> tower, idx |-> idx, shadow |-> FALSE]
SharedScope == 0 - 1

\* The fake variable of a gradient pack (None in the source).
NoVar == Var(0 - 2, 0)

\* Python's list[i] with i counted from 0; a negative i counts from the end.
PyInRange(list, i) == (0 - Len(list)) <= i /\ i < Len(list)
PyIndex(list, i) == IF i >= 0 THEN list[i + 1] ELSE list[Len(list) + i + 1]

\* A device: a replica's own device, or the parameter server device.
Gpu(d) == [job |-> "gpu", idx |-> d]
ParamServerDevice == [job |-> "ps", idx |-> 0]

----
\* The graph-construction variables of a specification that builds no graph.
BuildIdle ==
  /\ phase = "idle"
  /\ ctor_args = [cls |-> "", all_reduce_spec |-> [empty |-> TRUE, ranges |-> <<>>]]
  /\ benchmark_cnn = [num_devices |-> 0, hierarchical_copy |-> FALSE, gradient_repacking |-> 0]
  /\ mgr = [cls |-> "", raised |-> "", all_reduce_spec |-> <<>>]
  /\ grad_matrix = <<>>
  /\ pre = [raised |-> "", apply_devices |-> <<>>, state |-> <<>>,
            remaining_grads |-> <<>>, this_grads |-> <<>>, device_grad_packs |-> <<>>]
  /\ asked_device = 0
  /\ got = [raised |-> "", grads |-> <<>>]

\* The collections of a specification that saves nothing.
SaveIdle ==
  /\ tf_graph = [cls |-> "", num_gpus |-> 0, global_variables |-> {},
                 local_variables |-> {}, trainable_variables |-> {}]
  /\ savable = NotRun
  /\ post_init_ops = NotRun

\* self.grad_has_inf_nan = None
None == <<>>

\* The loss-scaling variables of a specification without loss scaling.
LossIdle ==
  /\ enable_auto_loss_scale = FALSE
  /\ grad_has_inf_nan = None
  /\ handed = <<>>

\* The training variables of a specification that trains nothing.
TrainIdle ==
  /\ var_value = <<>>
  /\ steps = 0
  /\ pending = {}

\* The run-time variables of a specification that runs no step.
BarrierIdle ==
  /\ cluster = [nW |-> 0, nP |-> 0, nD |-> 0]
  /\ applied = {}
  /\ arrived = {}
  /\ passed = {}
  /\ shadow = <<>>
  /\ updated_value = <<>>
  /\ replica_local = <<>>
  /\ assigned = {}

----
(***************************************************************************)
(* Bounds of the distributed-replicated step.                              *)
(***************************************************************************)
MaxWorkers == 2
MaxParams == 2
MaxLocalDevices == 2
\* at most this many (worker, parameter) apply ops in one step
MaxApplies == 4

Clusters ==
  { c \in [nW : 1..MaxWorkers, nP : 1..MaxParams, nD : 1..MaxLocalDevices] :
      c.nW * c.nP <= MaxApplies }

Workers == 0..(cluster.nW - 1)
ParamIdx == 0..(cluster.nP - 1)
LocalDevs == 0..(cluster.nD - 1)

RECURSIVE Pow2(_)
Pow2(n) == IF n = 0 THEN 1 ELSE 2 * Pow2(n - 1)

\* The averaged gradient worker w hands to the optimizer for parameter i
\* (grads[i][0] in append_apply_gradients_ops).  The values are distinct
\* powers of two, so the shadow value tells which applies it has absorbed.
WorkerGrad(w, i) == Pow2(w)

InitialValue(i) == 100 * (i + 1)

\* The shadow value once every worker's apply for parameter i has run.
RECURSIVE SumGrads(_, _)
SumGrads(ws, i) ==
  IF ws = {} THEN 0
  ELSE LET w == CHOOSE x \in ws : TRUE IN WorkerGrad(w, i) + SumGrads(ws \ {w}, i)

FullyUpdated(i) == InitialValue(i) - SumGrads(Workers, i)

----
(***************************************************************************)
(* One distributed-replicated step.                                        *)
(* VariableMgrDistributedReplicated.append_apply_gradients_ops builds, for *)
(* each parameter i: apply_gradient_op, a barrier that has it as control   *)
(* input, a read of the shadow variable under the barrier, and one assign  *)
(* per local device.  The runtime runs each op once its inputs are done.   *)
(***************************************************************************)

\* opt.apply_gradients([(g, v)]) on the shadow variable v (plain SGD, rate 1).
OptApply(value, g) == value - g

\* apply_gradient_op of worker w for parameter i.
ApplyGradientOp(w, i) ==
  /\ <<w, i>> \notin applied
  /\ applied' = applied \cup {<<w, i>>}
  /\ shadow' = [shadow EXCEPT ![i] = OptApply(@, WorkerGrad(w, i))]
  /\ UNCHANGED <<cluster, arrived, passed, updated_value, replica_local, assigned,
               buildVars, trainVars,
                 saveVars, lossVars>>

\* A slip: the barrier of parameter i waits for every apply of the worker.
BarrierControlInputs_EveryApply(w, i) == \A j \in ParamIdx : <<w, j>> \in applied

\* The control inputs handed to add_sync_queues_and_barrier: [apply_gradient_op].
BarrierControlInputs(w, i) == <<w, i>> \in applied

\* add_sync_queues_and_barrier, first half: once its control inputs are done,
\* worker w puts a token on the queue of barrier name_prefix of every worker.
BarrierArrive(w, i) ==
  /\ <<w, i>> \notin arrived
  /\ BarrierControlInputs(w, i)
  /\ arrived' = arrived \cup {<<w, i>>}
  /\ UNCHANGED <<cluster, applied, passed, shadow, updated_value, replica_local, assigned,
               buildVars, trainVars,
                 saveVars, lossVars>>

\* add_sync_queues_and_barrier, second half: the barrier op of worker w
\* completes when the tokens of all workers are there.
BarrierComplete(w, i) ==
  /\ <<w, i>> \notin passed
  /\ <<w, i>> \in arrived
  /\ \A w2 \in Workers : <<w2, i>> \in arrived
  /\ passed' = passed \cup {<<w, i>>}
  /\ UNCHANGED <<cluster, applied, arrived, shadow, updated_value, replica_local, assigned,
               buildVars, trainVars,
                 saveVars, lossVars>>

\* A plausible slip: the read placed under the apply op instead of the barrier.
ReadControlInputsApplyOnly(w, i) == <<w, i>> \in applied

\* with tf.control_dependencies([barrier]): what the read and the assigns wait for.
ReadControlInputs(w, i) == <<w, i>> \in passed

\* updated_value = v.read_value()
ReadValue(w, i) ==
  /\ updated_value[<<w, i>>] = NotRun
  /\ ReadControlInputs(w, i)
  /\ updated_value' = [updated_value EXCEPT ![<<w, i>>] = <<shadow[i]>>]
  /\ UNCHANGED <<cluster, applied, arrived, passed, shadow, replica_local, assigned,
               buildVars, trainVars,
                 saveVars, lossVars>>

\* A slip: every assign of parameter i written to the variable of device 0.
AssignTarget_Device0(my_d, i) == <<0, i>>

\* device_grads[my_d][i][1]: the variable of local device my_d at position i
\* of the preprocess state.
AssignTarget(my_d, i) == <<my_d, i>>

\* device_grads[my_d][i][1].assign(updated_value)
AssignLocal(w, i, d) ==
  /\ <<w, i, d>> \notin assigned
  /\ updated_value[<<w, i>>] # NotRun
  /\ ReadControlInputs(w, i)
  /\ assigned' = assigned \cup {<<w, i, d>>}
  /\ replica_local' =
       [replica_local EXCEPT ![<<w>> \o AssignTarget(d, i)] = @ \o updated_value[<<w, i>>]]
  /\ UNCHANGED <<cluster, applied, arrived, passed, shadow, updated_value, buildVars, trainVars,
                 saveVars, lossVars>>

BarrierInit ==
  /\ cluster \in Clusters
  /\ applied = {}
  /\ arrived = {}
  /\ passed = {}
  /\ shadow = [i \in 0..(cluster.nP - 1) |-> InitialValue(i)]
  /\ updated_value =
       [k \in (0..(cluster.nW - 1)) \X (0..(cluster.nP - 1)) |-> NotRun]
  /\ replica_local =
       [k \in (0..(cluster.nW - 1)) \X (0..(cluster.nD - 1)) \X (0..(cluster.nP - 1))
          |-> NotRun]
  /\ assigned = {}
  /\ BuildIdle
  /\ TrainIdle
  /\ SaveIdle
  /\ LossIdle

BarrierNext ==
  \E w \in Workers, i \in ParamIdx :
    \/ ApplyGradientOp(w, i)
    \/ BarrierArrive(w, i)
    \/ BarrierComplete(w, i)
    \/ ReadValue(w, i)
    \/ \E d \in LocalDevs : AssignLocal(w, i, d)

SpecBarrier == BarrierInit /\ [][BarrierNext]_vars

----
(***************************************************************************)
(* The collaborators in allreduce.py and variable_mgr_util.py, as far as   *)
(* variable_mgr.py relies on them.                                         *)
(***************************************************************************)

\* An all_reduce_spec string is kept as [empty, ranges]: whether it is the
\* empty string (or None), and the AllReduceSpecTuples [alg, shards, limit]
\* that allreduce.parse_all_reduce_spec returns for it.
SpecString(empty, ranges) == [empty |-> empty, ranges |-> ranges]
NoSpecString == SpecString(TRUE, <<>>)

\* allreduce.parse_all_reduce_spec
ParseAllReduceSpec(all_reduce_spec) == all_reduce_spec.ranges

\* Python's filter of the empty per-tower lists (if small_dl: ...append).
RECURSIVE DropEmpty(_)
DropEmpty(lists) ==
  IF lists = <<>> THEN <<>>
  ELSE (IF Head(lists) = <<>> THEN <<>> ELSE <<Head(lists)>>) \o DropEmpty(Tail(lists))

RECURSIVE SelectGV(_, _, _)
SelectGV(dl, limit, small) ==
  IF dl = <<>> THEN <<>>
  ELSE (IF (TfSize(Head(dl).g) <= limit) = small THEN <<Head(dl)>> ELSE <<>>)
         \o SelectGV(Tail(dl), limit, small)

\* allreduce.split_grads_by_size: per tower, the gradients of at most
\* threshold_size elements, and the larger ones.
SplitGradsBySize(threshold_size, device_grads) ==
  [small |-> DropEmpty([t \in 1..Len(device_grads) |->
                          SelectGV(device_grads[t], threshold_size, TRUE)]),
   large |-> DropEmpty([t \in 1..Len(device_grads) |->
                          SelectGV(device_grads[t], threshold_size, FALSE)])]

\* The gradients of all towers at position p (zip(*tower_grads)).
Column(tower_grads, p) == [t \in 1..Len(tower_grads) |-> tower_grads[t][p].g]

\* The reduction of one position: the sum, or with use_mean the mean.
Reduce(tower_grads, p, use_mean) ==
  IF use_mean /\ Len(tower_grads) > 1
  THEN ScaleDown(AddN(Column(tower_grads, p)), Len(tower_grads))
  ELSE AddN(Column(tower_grads, p))

\* variable_mgr_util.aggregate_gradients_using_copy and its two variants with
\* device selection and with variable colocation: one list, the reduced
\* gradient of each position with the first tower's variable.
AggregateGradientsUsingCopy(tower_grads, use_mean) ==
  [p \in 1..Len(tower_grads[1]) |->
     GV(Reduce(tower_grads, p, use_mean), tower_grads[1][p].v)]

\* variable_mgr_util.aggregate_gradients_using_hierarchical_copy: one list per
\* tower, the reduced gradient of each position with that tower's variable.
AggregateGradientsUsingHierarchicalCopy(tower_grads, use_mean) ==
  [t \in 1..Len(tower_grads) |->
     [p \in 1..Len(tower_grads[1]) |->
        GV(Reduce(tower_grads, p, use_mean), tower_grads[t][p].v)]]

\* allreduce.sum_gradients_all_reduce: one list per tower, the sum of each
\* position with that tower's variable.
SumGradientsAllReduce(tower_grads) ==
  [t \in 1..Len(tower_grads) |->
     [p \in 1..Len(tower_grads[1]) |->
        GV(Reduce(tower_grads, p, FALSE), tower_grads[t][p].v)]]

\* benchmark_cnn.devices
BenchmarkDevices(bc) == [d \in 1..bc.num_devices |-> Gpu(d - 1)]

----
(***************************************************************************)
(* The VariableMgr classes.  self is [cls, raised, all_reduce_spec]; bc is *)
(* the benchmark_cnn object: [num_devices, hierarchical_copy,              *)
(* gradient_repacking].  device_grads[t][p] is the (gradient, variable)    *)
(* tuple of tower t-1 at position p-1.                                     *)
(***************************************************************************)
Classes ==
  {"Independent", "LocalFetchFromPS", "LocalFetchFromStagedPS", "LocalReplicated",
   "DistributedAllReduce", "DistributedFetchFromPS", "DistributedFetchFromStagedPS",
   "DistributedReplicated"}

\* The classes whose get_gradients_to_apply is that of the fetch-from-ps base.
LocalPSClasses == {"LocalFetchFromPS", "LocalFetchFromStagedPS"}
DistributedPSClasses == {"DistributedFetchFromPS", "DistributedFetchFromStagedPS"}

\* VariableMgr.__init__
VariableMgr_init(cls) == [cls |-> cls, raised |-> NoError, all_reduce_spec |-> <<>>]

Raise(cls, exception) == [cls |-> cls, raised |-> exception, all_reduce_spec |-> <<>>]

\* A slip: the hybrid check left out, the first range taken.
LocalReplicated_init_NoHybridCheck(all_reduce_spec) ==
  IF ~all_reduce_spec.empty /\ ParseAllReduceSpec(all_reduce_spec) # <<>>
  THEN [VariableMgr_init("LocalReplicated") EXCEPT
          !.all_reduce_spec = <<ParseAllReduceSpec(all_reduce_spec)[1]>>]
  ELSE VariableMgr_init("LocalReplicated")

\* VariableMgrLocalReplicated.__init__: _all_reduce_spec is <<>> for None.
LocalReplicated_init(all_reduce_spec) ==
  IF ~all_reduce_spec.empty
  THEN LET spec == ParseAllReduceSpec(all_reduce_spec) IN
       IF Len(spec) # 1
       THEN Raise("LocalReplicated", "ValueError")
       ELSE [VariableMgr_init("LocalReplicated") EXCEPT !.all_reduce_spec = <<spec[1]>>]
  ELSE VariableMgr_init("LocalReplicated")

\* VariableMgrDistributedAllReduce.__init__
DistributedAllReduce_init(all_reduce_spec) ==
  IF all_reduce_spec.empty
  THEN Raise("DistributedAllReduce", "ValueError")
  ELSE LET spec == ParseAllReduceSpec(all_reduce_spec) IN
       IF spec = <<>>
       THEN Raise("DistributedAllReduce", "ValueError")
       ELSE [VariableMgr_init("DistributedAllReduce") EXCEPT !.all_reduce_spec = spec]

\* The constructor call for class cls.
Construct(cls, all_reduce_spec) ==
  CASE cls = "LocalReplicated" -> LocalReplicated_init(all_reduce_spec)
    [] cls = "DistributedAllReduce" -> DistributedAllReduce_init(all_reduce_spec)
    [] OTHER -> VariableMgr_init(cls)

\* What preprocess_device_grads returns: (apply_devices, state), or raises.
\* remaining_grads and this_grads are the locals of the all-reduce loop,
\* device_grad_packs the packs of the repacking branch.
PreResult(raised, apply_devices, state) ==
  [raised |-> raised, apply_devices |-> apply_devices, state |-> state,
   remaining_grads |-> <<>>, this_grads |-> <<>>, device_grad_packs |-> <<>>]

\* A slip: the apply device of the parameter-server modes.
Independent_preprocess_device_grads_OnPS(bc, device_grads) ==
  PreResult(NoError, <<ParamServerDevice>>, device_grads)

\* VariableMgrIndependent.preprocess_device_grads
Independent_preprocess_device_grads(bc, device_grads) ==
  PreResult(NoError, BenchmarkDevices(bc), device_grads)

\* preprocess_device_grads of VariableMgrLocalFetchFromPS,
\* VariableMgrDistributedFetchFromPS and VariableMgrDistributedReplicated.
ParamServer_preprocess_device_grads(bc, device_grads) ==
  PreResult(NoError, <<ParamServerDevice>>, device_grads)

\* A slip: the variable taken from agg_grads, which holds tower 0's variables.
LocalReplicated_copy_branch_AggVar(device_grads) ==
  LET agg_grads == AggregateGradientsUsingCopy(device_grads, FALSE) IN
  [t \in 1..Len(device_grads) |->
     [p \in 1..Len(agg_grads) |-> GV(agg_grads[p].g, agg_grads[p].v)]]

\* VariableMgrLocalReplicated.preprocess_device_grads, hierarchical_copy off:
\* [(g, v) for (_, v), (g, _) in zip(arr, agg_grads)] for each tower arr.
LocalReplicated_copy_branch(device_grads) ==
  LET agg_grads == AggregateGradientsUsingCopy(device_grads, FALSE) IN
  [t \in 1..Len(device_grads) |->
     [p \in 1..Len(agg_grads) |-> GV(agg_grads[p].g, device_grads[t][p].v)]]

\* A slip: the last pack as long as the others.
SplitSizes_EqualPacks(total_grad_size, num_splits) ==
  [k \in 1..num_splits |-> total_grad_size \div num_splits]

\* split_sizes = [split_size] * (num_splits - 1) + [split_size_last]
SplitSizes(total_grad_size, num_splits) ==
  LET split_size == total_grad_size \div num_splits
      split_size_last == total_grad_size - split_size * (num_splits - 1)
  IN [k \in 1..num_splits |-> IF k < num_splits THEN split_size ELSE split_size_last]

\* The packing of one tower: flatten, concat, split into num_splits packs with
\* fake variables; the shapes and sizes are remembered.
RepackTower(tower_grads_and_vars, num_splits) ==
  LET flat_grads == [p \in 1..Len(tower_grads_and_vars) |->
                       TfFlatten(tower_grads_and_vars[p].g)]
      concat_grads == TfConcat(flat_grads)
      grad_packs == TfSplit(concat_grads, SplitSizes(TfSize(concat_grads), num_splits))
  IN [raised |-> IF tower_grads_and_vars = <<>> THEN "IndexError" ELSE grad_packs.raised,
      packs |-> [k \in 1..Len(grad_packs.value) |-> GV(grad_packs.value[k], NoVar)],
      tower_shapes |-> [p \in 1..Len(tower_grads_and_vars) |->
                          TfShape(tower_grads_and_vars[p].g)],
      tower_sizes |-> [p \in 1..Len(tower_grads_and_vars) |->
                         TfSize(tower_grads_and_vars[p].g)]]

Min(a, b) == IF a < b THEN a ELSE b

\* The reverse of the packing for one tower: concat the summed packs, split by
\* the original sizes, reshape, pair with the tower's own variables.
UnpackTower(summed_tower_grad_packs, tower_grads_and_vars, tower_shapes, tower_sizes) ==
  LET device_grad_packs == [k \in 1..Len(summed_tower_grad_packs) |->
                              summed_tower_grad_packs[k].g]
      device_grads_concat == TfConcat(device_grad_packs)
      grads_with_sizes == TfSplit(device_grads_concat, tower_sizes)
      grads_with_shapes ==
        [p \in 1..Min(Len(tower_shapes), Len(grads_with_sizes.value)) |->
           TfReshape(grads_with_sizes.value[p], tower_shapes[p])]
      n == Min(Len(grads_with_shapes), Len(tower_grads_and_vars))
  IN [raised |->
        IF summed_tower_grad_packs = <<>> THEN "IndexError"
        ELSE IF grads_with_sizes.raised # NoError THEN grads_with_sizes.raised
        ELSE IF \E p \in 1..Len(grads_with_shapes) : grads_with_shapes[p].raised # NoError
        THEN "InvalidArgumentError"
        ELSE NoError,
      grads |-> [p \in 1..n |-> GV(grads_with_shapes[p].value, tower_grads_and_vars[p].v)]]

\* VariableMgrLocalReplicated.preprocess_device_grads, gradient_repacking > 0.
LocalReplicated_repack_branch(bc, device_grads) ==
  LET num_splits == bc.gradient_repacking
      packed == [t \in 1..Len(device_grads) |-> RepackTower(device_grads[t], num_splits)]
      device_grad_packs == [t \in 1..Len(device_grads) |-> packed[t].packs]
      summed_device_grad_packs ==
        AggregateGradientsUsingHierarchicalCopy(device_grad_packs, FALSE)
      unpacked == [t \in 1..Len(device_grads) |->
                     UnpackTower(summed_device_grad_packs[t], device_grads[t],
                                 packed[t].tower_shapes, packed[t].tower_sizes)]
  IN IF \E t \in 1..Len(device_grads) : packed[t].raised # NoError
     THEN PreResult((CHOOSE e \in {packed[t].raised : t \in 1..Len(device_grads)} :
                       e # NoError), <<>>, <<>>)
     ELSE IF \E t \in 1..Len(device_grads) : unpacked[t].raised # NoError
     THEN PreResult((CHOOSE e \in {unpacked[t].raised : t \in 1..Len(device_grads)} :
                       e # NoError), <<>>, <<>>)
     ELSE [PreResult(NoError, BenchmarkDevices(bc),
                     [t \in 1..Len(device_grads) |-> unpacked[t].grads])
             EXCEPT !.device_grad_packs = device_grad_packs]

\* VariableMgrLocalReplicated.preprocess_device_grads
LocalReplicated_preprocess_device_grads(self, bc, device_grads) ==
  IF self.all_reduce_spec # <<>>
  THEN PreResult(NoError, BenchmarkDevices(bc), SumGradientsAllReduce(device_grads))
  ELSE IF ~bc.hierarchical_copy
  THEN PreResult(NoError, BenchmarkDevices(bc), LocalReplicated_copy_branch(device_grads))
  ELSE IF bc.gradient_repacking = 0
  THEN PreResult(NoError, BenchmarkDevices(bc),
                 AggregateGradientsUsingHierarchicalCopy(device_grads, FALSE))
  ELSE LocalReplicated_repack_branch(bc, device_grads)

\* A slip: the open-ended range leaves the remainder as it was.
RangeSplit_KeepRemainder(spec_tuple, remaining_grads) ==
  IF spec_tuple.limit < 0
  THEN [this_grads |-> remaining_grads, remaining_grads |-> remaining_grads]
  ELSE LET sp == SplitGradsBySize(spec_tuple.limit, remaining_grads) IN
       [this_grads |-> sp.small, remaining_grads |-> sp.large]

\* One range of the loop of VariableMgrDistributedAllReduce.preprocess_device_grads:
\* what it takes (this_grads) and what it leaves (remaining_grads).
RangeSplit(spec_tuple, remaining_grads) ==
  IF spec_tuple.limit < 0
  THEN [this_grads |-> remaining_grads, remaining_grads |-> <<>>]
  ELSE LET sp == SplitGradsBySize(spec_tuple.limit, remaining_grads) IN
       [this_grads |-> sp.small, remaining_grads |-> sp.large]

\* The loop over self._all_reduce_spec.  this_grads collects, range by range,
\* what each range took.
RECURSIVE AllReduceLoop(_, _, _, _)
AllReduceLoop(spec, remaining_grads, aggregated_grads, this_grads) ==
  IF spec = <<>>
  THEN [raised |-> NoError, remaining_grads |-> remaining_grads,
        aggregated_grads |-> aggregated_grads, this_grads |-> this_grads]
  ELSE LET r == RangeSplit(Head(spec), remaining_grads)
           taken == Append(this_grads, r.this_grads)
       IN IF r.this_grads = <<>>
          THEN AllReduceLoop(Tail(spec), r.remaining_grads, aggregated_grads, taken)
          ELSE LET range_agg_grads == SumGradientsAllReduce(r.this_grads) IN
               IF aggregated_grads = <<>>
               THEN AllReduceLoop(Tail(spec), r.remaining_grads, range_agg_grads, taken)
               ELSE IF Len(aggregated_grads) # Len(range_agg_grads)
               THEN [raised |-> "AssertionError", remaining_grads |-> r.remaining_grads,
                     aggregated_grads |-> aggregated_grads, this_grads |-> taken]
               ELSE AllReduceLoop(
                      Tail(spec), r.remaining_grads,
                      [i \in 1..Len(aggregated_grads) |->
                         aggregated_grads[i] \o range_agg_grads[i]],
                      taken)

\* VariableMgrDistributedAllReduce.preprocess_device_grads.  The gradient of
\* tower t lives on device t, which is what g.device gives.
DistributedAllReduce_preprocess_device_grads(self, device_grads) ==
  LET loop == AllReduceLoop(self.all_reduce_spec, device_grads, <<>>, <<>>)
      full_device_set == [t \in 1..Len(device_grads) |-> Gpu(t - 1)]
      raised ==
        IF loop.raised # NoError THEN loop.raised
        ELSE IF loop.remaining_grads # <<>> THEN "AssertionError"
        ELSE IF \E t \in 1..Len(device_grads) : device_grads[t] = <<>> THEN "IndexError"
        ELSE NoError
  IN [raised |-> raised,
      apply_devices |-> IF raised = NoError THEN full_device_set ELSE <<>>,
      state |-> IF raised = NoError THEN loop.aggregated_grads ELSE <<>>,
      remaining_grads |-> loop.remaining_grads,
      this_grads |-> loop.this_grads,
      device_grad_packs |-> <<>>]

\* preprocess_device_grads of the class of self.
PreprocessDeviceGrads(self, bc, device_grads) ==
  CASE self.cls = "Independent" -> Independent_preprocess_device_grads(bc, device_grads)
    [] self.cls = "LocalReplicated" ->
         LocalReplicated_preprocess_device_grads(self, bc, device_grads)
    [] self.cls = "DistributedAllReduce" ->
         DistributedAllReduce_preprocess_device_grads(self, device_grads)
    [] OTHER -> ParamServer_preprocess_device_grads(bc, device_grads)

\* What get_gradients_to_apply returns: a [(gradient, variable)] list, or raises.
GetResult(raised, grads) == [raised |-> raised, grads |-> grads]

\* A slip: tower 0's list for every device.
Independent_get_gradients_to_apply_Tower0(device_num, gradient_state) ==
  IF PyInRange(gradient_state, device_num)
  THEN GetResult(NoError, gradient_state[1])
  ELSE GetResult("IndexError", <<>>)

\* VariableMgrIndependent.get_gradients_to_apply (automatic loss scaling off)
Independent_get_gradients_to_apply(device_num, gradient_state) ==
  IF PyInRange(gradient_state, device_num)
  THEN GetResult(NoError, PyIndex(gradient_state, device_num))
  ELSE GetResult("IndexError", <<>>)

\* A slip: the sum instead of the mean.
LocalFetchFromPS_get_gradients_to_apply_Sum(device_num, gradient_state) ==
  IF device_num # 0
  THEN GetResult("AssertionError", <<>>)
  ELSE GetResult(NoError, AggregateGradientsUsingCopy(gradient_state, FALSE))

\* VariableMgrLocalFetchFromPS.get_gradients_to_apply
LocalFetchFromPS_get_gradients_to_apply(device_num, gradient_state) ==
  IF device_num # 0
  THEN GetResult("AssertionError", <<>>)
  ELSE GetResult(NoError, AggregateGradientsUsingCopy(gradient_state, TRUE))

\* VariableMgrLocalReplicated.get_gradients_to_apply
LocalReplicated_get_gradients_to_apply(device_num, gradient_state) ==
  IF PyInRange(gradient_state, device_num)
  THEN GetResult(NoError, PyIndex(gradient_state, device_num))
  ELSE GetResult("IndexError", <<>>)

\* VariableMgrDistributedAllReduce.get_gradients_to_apply
DistributedAllReduce_get_gradients_to_apply(device_num, gradient_state) ==
  IF device_num >= Len(gradient_state)
  THEN GetResult("ValueError", <<>>)
  ELSE IF PyInRange(gradient_state, device_num)
  THEN GetResult(NoError, PyIndex(gradient_state, device_num))
  ELSE GetResult("IndexError", <<>>)

\* VariableMgrDistributedFetchFromPS.get_gradients_to_apply
DistributedFetchFromPS_get_gradients_to_apply(device_num, gradient_state) ==
  IF device_num # 0
  THEN GetResult("AssertionError", <<>>)
  ELSE GetResult(NoError, AggregateGradientsUsingCopy(gradient_state, TRUE))

\* The shadow variable PS_SHADOW_VAR_PREFIX + '/' + v.name on the parameter server.
ShadowVar(v) == [v EXCEPT !.shadow = TRUE]

\* VariableMgrDistributedReplicated.get_gradients_to_apply: device_num is not
\* looked at.
DistributedReplicated_get_gradients_to_apply(device_num, gradient_state) ==
  LET avg_grads == AggregateGradientsUsingCopy(gradient_state, TRUE) IN
  GetResult(NoError,
            [i \in 1..Len(avg_grads) |-> GV(avg_grads[i].g, ShadowVar(avg_grads[i].v))])

\* get_gradients_to_apply of the class of self.
GetGradientsToApply(self, device_num, gradient_state) ==
  CASE self.cls = "Independent" ->
         Independent_get_gradients_to_apply(device_num, gradient_state)
    [] self.cls \in LocalPSClasses ->
         LocalFetchFromPS_get_gradients_to_apply(device_num, gradient_state)
    [] self.cls = "LocalReplicated" ->
         LocalReplicated_get_gradients_to_apply(device_num, gradient_state)
    [] self.cls = "DistributedAllReduce" ->
         DistributedAllReduce_get_gradients_to_apply(device_num, gradient_state)
    [] self.cls \in DistributedPSClasses ->
         DistributedFetchFromPS_get_gradients_to_apply(device_num, gradient_state)
    [] self.cls = "DistributedReplicated" ->
         DistributedReplicated_get_gradients_to_apply(device_num, gradient_state)


\* The encoding of a non-finite element (NaN, +Inf, -Inf): a negative number.
\* The gradients of the runs with loss scaling hold 0 for a finite element,
\* so a sum or a mean is negative exactly when one of its inputs is.
NonFinite == 0 - 1

\* tf.is_finite on one element
IsFinite(e) == e >= 0

\* tf.reduce_all(tf.is_finite(grad))
AllFinite(grad) == \A k \in 1..Len(grad.elems) : IsFinite(grad.elems[k])

\* The has_nan_or_inf result of the aggregate_gradients_using_* functions:
\* None unless check_inf_nan, else whether a gradient holds a non-finite value.
CheckInfNan(device_grads, check_inf_nan) ==
  IF check_inf_nan
  THEN <<\E t \in 1..Len(device_grads) : \E p \in 1..Len(device_grads[t]) :
           ~AllFinite(device_grads[t][p].g)>>
  ELSE None

\* self.grad_has_inf_nan after preprocess_device_grads: assigned by the copy,
\* hierarchical-copy and repacking branches of Local-replicated, and by no
\* other preprocess_device_grads.
PreprocessGradHasInfNan(self, bc, device_grads, enable, old) ==
  IF self.cls = "LocalReplicated" /\ self.all_reduce_spec = <<>>
  THEN CheckInfNan(device_grads, enable)
  ELSE old

\* A slip: the check made for every device_num.
Independent_grad_has_inf_nan_EveryDevice(device_num, tower_grad, enable, old) ==
  IF enable
  THEN <<~(\A i \in 1..Len(tower_grad) : AllFinite(tower_grad[i].g))>>
  ELSE old

\* VariableMgrIndependent.get_gradients_to_apply:
\* if self.benchmark_cnn.enable_auto_loss_scale and device_num == 0: ...
Independent_grad_has_inf_nan(device_num, tower_grad, enable, old) ==
  IF enable /\ device_num = 0
  THEN <<~(\A i \in 1..Len(tower_grad) : AllFinite(tower_grad[i].g))>>
  ELSE old

\* self.grad_has_inf_nan after get_gradients_to_apply(device_num, state): a
\* call that raises has not assigned it.
GetGradHasInfNan(self, device_num, gradient_state, enable, old) ==
  IF GetGradientsToApply(self, device_num, gradient_state).raised # NoError THEN old
  ELSE CASE self.cls = "Independent" ->
              Independent_grad_has_inf_nan(device_num, PyIndex(gradient_state, device_num),
                                           enable, old)
         [] self.cls \in LocalPSClasses \cup DistributedPSClasses
                           \cup {"DistributedReplicated"} ->
              CheckInfNan(gradient_state, enable)
         [] OTHER -> old

----
(***************************************************************************)
(* Graph construction: the caller constructs the VariableMgr, hands the    *)
(* gradient matrix to preprocess_device_grads, then asks for the gradients *)
(* of a device.  An exception ends the construction.                       *)
(***************************************************************************)
MaxDevices == 2
MaxGrads == 2
\* at most this many (tower, position) entries in a gradient matrix
MaxEntries == 4
\* gradient elements are 0..MaxGradValue
MaxGradValue == 1
MaxRepack == 2
\* a gradient has at most this many elements
MaxGradSize == 2
\* an all_reduce_spec has at most this many ranges
MaxRanges == 3

\* each_tower_has_variables()
EachTowerHasVariables(cls) ==
  cls \in {"Independent", "LocalReplicated", "DistributedAllReduce", "DistributedReplicated"}

\* The variable tower t-1 uses at position p-1: its own ('v<t-1>/...') when each
\* tower has variables, else the shared one ('v/...').
TowerVar(cls, t, p) ==
  IF EachTowerHasVariables(cls) THEN Var(t - 1, p - 1) ELSE Var(SharedScope, p - 1)

\* The gradient matrices of n towers whose position p has shape shapes[p], with
\* elements in 0..MaxGradValue: all towers hold the same shape at a position.
\* The element lists of one tower: every choice of elements in 0..MaxGradValue,
\* or (distinct) the one choice that gives each element of the matrix a value
\* of its own.
RECURSIVE TowerElems(_, _, _, _)
TowerElems(shapes, t, p, distinct) ==
  IF shapes = <<>> THEN {<<>>}
  ELSE {<<e>> \o r :
          e \in IF distinct
                 THEN {[k \in 1..ProdSeq(Head(shapes)) |-> 100 * t + 10 * p + k]}
                 ELSE [1..ProdSeq(Head(shapes)) -> 0..MaxGradValue],
          r \in TowerElems(Tail(shapes), t, p + 1, distinct)}

RECURSIVE MatrixElems(_, _, _)
MatrixElems(n, shapes, distinct) ==
  IF n = 0 THEN {<<>>}
  ELSE {m \o <<r>> : m \in MatrixElems(n - 1, shapes, distinct),
                      r \in TowerElems(shapes, n, 1, distinct)}

\* The gradient matrices of n towers whose position p has shape shapes[p]: all
\* towers hold the same shape at a position.
Matrices(cls, n, shapes, distinct) ==
  { [t \in 1..n |-> [p \in 1..Len(shapes) |->
       GV(Tensor(shapes[p], e[t][p]), TowerVar(cls, t, p))]] :
    e \in MatrixElems(n, shapes, distinct) }

Range(limit) == [alg |-> "xring", shards |-> 1, limit |-> limit]

\* The range lists the parser returns: up to MaxRanges - 1 ranges with a
\* limit, then the open-ended range (limit -1).
RECURSIVE BoundedRanges(_, _)
BoundedRanges(limits, n) ==
  IF n = 0 THEN {<<>>}
  ELSE LET shorter == BoundedRanges(limits, n - 1) IN
       shorter \cup {Append(r, Range(l)) : r \in {x \in shorter : Len(x) = n - 1}, l \in limits}

ParsedSpecs(limits) ==
  {Append(r, Range(0 - 1)) : r \in BoundedRanges(limits, MaxRanges - 1)}

\* The all_reduce_spec arguments: none, a non-empty string that parses to no
\* range, and the strings that parse to a range list.
SpecStrings(limits) ==
  {NoSpecString, SpecString(FALSE, <<>>)}
    \cup {SpecString(FALSE, r) : r \in ParsedSpecs(limits)}

\* The constructor arguments and benchmark_cnn settings class cls looks at.
CtorArgs(classes, limits) ==
  {[cls |-> c, all_reduce_spec |-> a] : c \in classes, a \in SpecStrings(limits)}

UsesSpec(cls) == cls \in {"LocalReplicated", "DistributedAllReduce"}

BuildConfig(classes, limits) ==
  /\ phase = "start"
  /\ ctor_args \in {a \in CtorArgs(classes, limits) :
                       UsesSpec(a.cls) \/ a.all_reduce_spec = NoSpecString}
  /\ benchmark_cnn \in
       {b \in [num_devices : 1..MaxDevices, hierarchical_copy : BOOLEAN,
               gradient_repacking : 0..MaxRepack] :
          \/ ctor_args.cls = "LocalReplicated" /\ (b.hierarchical_copy \/ b.gradient_repacking = 0)
          \/ ~b.hierarchical_copy /\ b.gradient_repacking = 0}
  /\ mgr = [cls |-> "", raised |-> "", all_reduce_spec |-> <<>>]
  /\ pre = [raised |-> "", apply_devices |-> <<>>, state |-> <<>>,
            remaining_grads |-> <<>>, this_grads |-> <<>>, device_grad_packs |-> <<>>]
  /\ asked_device = 0
  /\ got = [raised |-> "", grads |-> <<>>]

BuildInputs(classes, limits, shapeSets, distinct) ==
  /\ BuildConfig(classes, limits)
  /\ \E shapes \in shapeSets :
       /\ benchmark_cnn.num_devices * Len(shapes) <= MaxEntries
       /\ grad_matrix \in Matrices(ctor_args.cls, benchmark_cnn.num_devices, shapes, distinct)

BuildInit(classes, limits, shapeSets, distinct) ==
  /\ BuildInputs(classes, limits, shapeSets, distinct)
  /\ BarrierIdle
  /\ TrainIdle
  /\ SaveIdle
  /\ LossIdle

\* variable_mgr = VariableMgr<cls>(benchmark_cnn, ...)
ConstructMgr ==
  /\ phase = "start"
  /\ mgr' = Construct(ctor_args.cls, ctor_args.all_reduce_spec)
  /\ phase' = IF mgr'.raised = NoError THEN "constructed" ELSE "raised"
  /\ UNCHANGED <<ctor_args, benchmark_cnn, grad_matrix, pre, asked_device, got, barrierVars, trainVars,
                 saveVars, lossVars>>

\* apply_devices, gradient_state = variable_mgr.preprocess_device_grads(device_grads)
CallPreprocessDeviceGrads ==
  /\ phase = "constructed"
  /\ pre' = PreprocessDeviceGrads(mgr, benchmark_cnn, grad_matrix)
  /\ phase' = IF pre'.raised = NoError THEN "preprocessed" ELSE "raised"
  /\ grad_has_inf_nan' =
       IF pre'.raised = NoError
       THEN PreprocessGradHasInfNan(mgr, benchmark_cnn, grad_matrix, enable_auto_loss_scale,
                                    grad_has_inf_nan)
       ELSE grad_has_inf_nan
  /\ UNCHANGED <<ctor_args, benchmark_cnn, mgr, grad_matrix, asked_device, got, barrierVars, trainVars,
                 saveVars, enable_auto_loss_scale, handed>>

\* The device numbers a caller may pass: the indices of apply_devices, and
\* numbers past their end.
DeviceNums == 0..MaxDevices

\* variable_mgr.get_gradients_to_apply(d, gradient_state)
CallGetGradientsToApply(d) ==
  /\ phase \in {"preprocessed", "returned"}
  /\ asked_device' = d
  /\ got' = GetGradientsToApply(mgr, d, pre.state)
  /\ phase' = IF got'.raised = NoError THEN "returned" ELSE "raised"
  /\ grad_has_inf_nan' =
       GetGradHasInfNan(mgr, d, pre.state, enable_auto_loss_scale, grad_has_inf_nan)
  /\ UNCHANGED <<ctor_args, benchmark_cnn, mgr, grad_matrix, pre, barrierVars, trainVars,
                 saveVars, enable_auto_loss_scale, handed>>

BuildNext ==
  \/ ConstructMgr
  \/ CallPreprocessDeviceGrads
  \/ \E d \in DeviceNums : CallGetGradientsToApply(d)

\* One-element gradients, all classes and settings.
ScalarShapes == {[p \in 1..n |-> <<1>>] : n \in 1..MaxGrads}

Init == BuildInit(Classes, {0, 1}, ScalarShapes, FALSE)

Next == BuildNext

Spec == Init /\ [][Next]_vars

\* Distributed all-reduce on gradients of 1..MaxGradSize elements, with range
\* limits around those sizes.
SizedShapes ==
  UNION {[1..n -> {<<z>> : z \in 1..MaxGradSize}] : n \in 1..MaxGrads}

AllReduceInit ==
  BuildInit({"DistributedAllReduce"}, 0..MaxGradSize, SizedShapes, TRUE)

SpecAllReduce == AllReduceInit /\ [][BuildNext]_vars

\* Local-replicated on gradients of several shapes, empty ones included.
GradShapes ==
  {<<z>> : z \in 0..MaxGradSize} \cup {<<1, z>> : z \in 1..MaxGradSize}
    \cup {<<z, 1>> : z \in 1..MaxGradSize}

ShapedShapes == UNION {[1..n -> GradShapes] : n \in 1..MaxGrads}

RepackInit == BuildInit({"LocalReplicated"}, {}, ShapedShapes, TRUE)

SpecRepack == RepackInit /\ [][BuildNext]_vars

\* The runs with automatic loss scaling: one-element gradients that are
\* finite (0) or non-finite, and the calls in the order of the training loop:
\* preprocess_device_grads, then for each index d of apply_devices in
\* increasing order get_gradients_to_apply(d, state) and
\* append_apply_gradients_ops.
LossMatrices(cls, n, np) ==
  { [t \in 1..n |-> [p \in 1..np |->
       GV(Tensor(<<1>>, <<e[t][p]>>), TowerVar(cls, t, p))]] :
    e \in [1..n -> [1..np -> {0, NonFinite}]] }

LossInit ==
  /\ BuildConfig(Classes, {0, 1})
  /\ \E np \in 1..MaxGrads :
       /\ benchmark_cnn.num_devices * np <= MaxEntries
       /\ grad_matrix \in LossMatrices(ctor_args.cls, benchmark_cnn.num_devices, np)
  /\ enable_auto_loss_scale \in BOOLEAN
  /\ grad_has_inf_nan = None
  /\ handed = <<>>
  /\ BarrierIdle
  /\ TrainIdle
  /\ SaveIdle

\* get_gradients_to_apply for the next index of apply_devices.
GetForNextDevice ==
  /\ phase = "preprocessed"
  /\ Len(handed) < Len(pre.apply_devices)
  /\ CallGetGradientsToApply(Len(handed))

\* append_apply_gradients_ops (of VariableMgr and of
\* VariableMgrDistributedReplicated): self.grad_has_inf_nan is handed to
\* variable_mgr_util.append_gradients_with_loss_scale.
AppendApplyGradientsOps ==
  /\ phase = "returned"
  /\ handed' = Append(handed, grad_has_inf_nan)
  /\ phase' = "preprocessed"
  /\ UNCHANGED <<ctor_args, benchmark_cnn, mgr, grad_matrix, pre, asked_device, got,
                 enable_auto_loss_scale, grad_has_inf_nan, barrierVars, trainVars, saveVars>>

LossNext ==
  \/ ConstructMgr
  \/ CallPreprocessDeviceGrads
  \/ GetForNextDevice
  \/ AppendApplyGradientsOps

SpecLossScale == LossInit /\ [][LossNext]_vars

----
(***************************************************************************)
(* Training with replicated variables (Local-replicated and Distributed    *)
(* all-reduce): the variables are initialised, the post-init ops run once, *)
(* and each step preprocesses a gradient matrix and applies, on every      *)
(* apply device d, the list get_gradients_to_apply(d, state).              *)
(***************************************************************************)
MaxSteps == 2
\* The steps of a run times its towers stay within MaxTowerSteps.
MaxTowerSteps == 4

\* tf.global_variables(): the variables of the towers.
GlobalVariables(m) ==
  {m[t][p].v : t \in 1..Len(m), p \in 1..Len(m[1])}

\* A slip: split_name[0] not replaced, so each variable is copied from itself.
PostInitCopyFrom_Self(v) == v

\* split_name[0] = 'v0'; copy_from = var_by_name['/'.join(split_name)]
PostInitCopyFrom(v) == Var(0, v.idx)

\* get_post_init_ops of VariableMgrLocalReplicated and of
\* VariableMgrDistributedAllReduce: one assign for each global variable that is
\* not in the scope v0.
GetPostInitOps(global_vars) ==
  {[copy_to |-> v, copy_from |-> PostInitCopyFrom(v)] : v \in {x \in global_vars : x.tower # 0}}

\* The value of every variable once the ops have run: each reads a variable
\* of v0, which no op writes.
RunOps(values, ops) ==
  [v \in DOMAIN values |->
     IF \E op \in ops : op.copy_to = v
     THEN values[(CHOOSE op \in ops : op.copy_to = v).copy_from]
     ELSE values[v]]

\* opt.apply_gradients(grads) of VariableMgr.append_apply_gradients_ops (plain
\* SGD, rate 1) on one-element variables.
RECURSIVE ApplyGradients(_, _)
ApplyGradients(values, grads) ==
  IF grads = <<>> THEN values
  ELSE ApplyGradients(
         [values EXCEPT ![Head(grads).v] = OptApply(@, Head(grads).g.elems[1])],
         Tail(grads))

ReplicatedClasses == {"LocalReplicated", "DistributedAllReduce"}

\* The towers' variables start with values that differ between the towers.
TrainInit ==
  /\ BuildInputs(ReplicatedClasses, {0, 1}, ScalarShapes, TRUE)
  /\ var_value = [v \in GlobalVariables(grad_matrix) |-> 10 * (v.tower + 1) + v.idx]
  /\ steps = 0
  /\ pending = {}
  /\ BarrierIdle
  /\ SaveIdle
  /\ LossIdle

\* sess.run(variable_mgr.get_post_init_ops()), once after initialisation.
RunPostInitOps ==
  /\ phase = "constructed"
  /\ var_value' = RunOps(var_value, GetPostInitOps(DOMAIN var_value))
  /\ phase' = "synced"
  /\ UNCHANGED <<ctor_args, benchmark_cnn, mgr, grad_matrix, pre, asked_device, got,
                 steps, pending, barrierVars, saveVars, lossVars>>

\* A step begins: the towers have computed the gradient matrix m, which is
\* preprocessed; every apply device has its apply op to run.
BeginStep(m) ==
  /\ phase \in {"synced", "stepped"}
  /\ steps < MaxSteps
  /\ (steps + 1) * Len(m) <= MaxTowerSteps
  /\ grad_matrix' = m
  /\ pre' = PreprocessDeviceGrads(mgr, benchmark_cnn, m)
  /\ phase' = IF pre'.raised = NoError THEN "stepping" ELSE "raised"
  /\ pending' = IF pre'.raised = NoError THEN 0..(Len(pre'.apply_devices) - 1) ELSE {}
  /\ UNCHANGED <<ctor_args, benchmark_cnn, mgr, asked_device, got, var_value, steps,
                 barrierVars, saveVars, lossVars>>

\* The apply op of apply device d: opt.apply_gradients on the list
\* get_gradients_to_apply(d, gradient_state).  The step ends with the last one.
ApplyOnDevice(d) ==
  /\ phase = "stepping"
  /\ d \in pending
  /\ asked_device' = d
  /\ got' = GetGradientsToApply(mgr, d, pre.state)
  /\ got'.raised = NoError
  /\ var_value' = ApplyGradients(var_value, got'.grads)
  /\ pending' = pending \ {d}
  /\ phase' = IF pending' = {} THEN "stepped" ELSE "stepping"
  /\ steps' = IF pending' = {} THEN steps + 1 ELSE steps
  /\ UNCHANGED <<ctor_args, benchmark_cnn, mgr, grad_matrix, pre, barrierVars,
                 saveVars, lossVars>>

\* The one-element gradients of a step: tower t computes c[t] * p for the
\* parameter at position p, so that towers and parameters differ.
StepMatrix(cls, c, np) ==
  [t \in DOMAIN c |-> [p \in 1..np |->
     GV(Tensor(<<1>>, <<c[t] * p>>), TowerVar(cls, t, p))]]

TrainNext ==
  \/ ConstructMgr
  \/ RunPostInitOps
  \/ \E c \in [1..Len(grad_matrix) -> 0..MaxGradValue] :
       BeginStep(StepMatrix(mgr.cls, c, Len(grad_matrix[1])))
  \/ \E d \in 0..(MaxDevices - 1) : ApplyOnDevice(d)

SpecTrain == TrainInit /\ [][TrainNext]_vars

----
(***************************************************************************)
(* Variable names, savable_variables and get_post_init_ops.                *)
(* A name is the sequence of its characters, so that split, startswith and *)
(* the stripping of prefixes and suffixes are computed as Python does.  A  *)
(* variable of a collection is known by its name.                          *)
(***************************************************************************)
MaxTowerScopes == 2

\* str.startswith / str.endswith
StartsWith(s, prefix) ==
  Len(s) >= Len(prefix) /\ SubSeq(s, 1, Len(prefix)) = prefix

EndsWith(s, suffix) ==
  Len(s) >= Len(suffix) /\ SubSeq(s, Len(s) - Len(suffix) + 1, Len(s)) = suffix

\* str.split(sep) for a one-character sep
RECURSIVE PySplit(_, _)
PySplit(s, sep) ==
  IF \A k \in 1..Len(s) : s[k] # sep THEN <<s>>
  ELSE LET k == CHOOSE x \in 1..Len(s) : s[x] = sep /\ \A y \in 1..(x - 1) : s[y] # sep
       IN <<SubSeq(s, 1, k - 1)>> \o PySplit(SubSeq(s, k + 1, Len(s)), sep)

\* sep.join(parts)
RECURSIVE PyJoin(_, _)
PyJoin(parts, sep) ==
  IF Len(parts) = 0 THEN <<>>
  ELSE IF Len(parts) = 1 THEN parts[1]
  ELSE parts[1] \o <<sep>> \o PyJoin(Tail(parts), sep)

\* '%s' % n for a one-digit n
PyStr(n) == <<<<"0", "1", "2", "3", "4", "5", "6", "7", "8", "9">>[n + 1]>>

\* 'v%s' % device_num: the scope create_outer_variable_scope opens for a tower.
TowerScope(n) == <<"v">> \o PyStr(n)

\* The name of the variable a tower creates at a path of its scope.
TowerVarName(n, path) == TowerScope(n) \o <<"/">> \o path \o <<":", "0">>

\* The paths of the model's variables inside a tower scope.
Paths == {<<"w">>, <<"b">>}

\* Variables created outside the tower scopes; the second begins with 'v'.
GlobalStepName == <<"g", "l", "o", "b", "a", "l", "_", "s", "t", "e", "p", ":", "0">>
VelocityName == <<"v", "e", "l", "o", "c", "i", "t", "y", ":", "0">>

\* The variables of n towers that each create the same paths.
TowerVarNames(n, paths) == {TowerVarName(k, path) : k \in 0..(n - 1), path \in paths}

\* split_name[0] == 'v0' or not v.name.startswith('v')
InV0OrNotReplicated(name) ==
  PySplit(name, "/")[1] = <<"v", "0">> \/ ~StartsWith(name, <<"v">>)

\* savable_variables of VariableMgrLocalReplicated and of
\* VariableMgrDistributedAllReduce.
Replicated_savable_variables(global_variables) ==
  [raised |-> NoError,
   params |-> {v \in global_variables : InV0OrNotReplicated(v)}]

\* split_name[0] = 'v0'; '/'.join(split_name)
V0NameOf(name) ==
  PyJoin(<<<<"v", "0">>>> \o Tail(PySplit(name, "/")), "/")

\* get_post_init_ops of VariableMgrLocalReplicated and of
\* VariableMgrDistributedAllReduce on the names: var_by_name[...] raises
\* KeyError when no global variable has the v0 name.
Replicated_get_post_init_ops(global_variables) ==
  LET targets == {v \in global_variables : ~InV0OrNotReplicated(v)}
  IN IF \E v \in targets : V0NameOf(v) \notin global_variables
     THEN [raised |-> "KeyError", ops |-> {}]
     ELSE [raised |-> NoError,
           ops |-> {[copy_to |-> v, copy_from |-> V0NameOf(v)] : v \in targets}]

\* The graphs of the replicated managers: the towers' variables, and any of
\* the variables created outside the towers.
ReplicatedGraphs ==
  {[cls |-> c, num_gpus |-> n, global_variables |-> TowerVarNames(n, paths) \cup others,
    local_variables |-> {}, trainable_variables |-> TowerVarNames(n, paths)] :
     c \in ReplicatedClasses, n \in 1..MaxTowerScopes, paths \in SUBSET Paths,
     others \in SUBSET {GlobalStepName, VelocityName}}

\* variable_mgr_util.PS_SHADOW_VAR_PREFIX
PS_SHADOW_VAR_PREFIX == <<"p", "s", "_", "v", "a", "r">>

\* _strip_port
StripPort(name) ==
  IF EndsWith(name, <<":", "0">>) THEN SubSeq(name, 1, Len(name) - 2) ELSE name

\* _remove_shadow_var_prefix_if_present
RemoveShadowVarPrefixIfPresent(var_name) ==
  IF StartsWith(var_name, PS_SHADOW_VAR_PREFIX \o <<"/">>)
  THEN SubSeq(var_name, Len(PS_SHADOW_VAR_PREFIX) + 2, Len(var_name))
  ELSE var_name

\* PS_SHADOW_VAR_PREFIX + '/' + v.name, the name get_gradients_to_apply gives
\* the shadow variable of v (tf.get_variable appends ':0' again).
ShadowName(name) == PS_SHADOW_VAR_PREFIX \o <<"/">> \o name

LossScaleName == <<"l", "o", "s", "s", "_", "s", "c", "a", "l", "e", ":", "0">>
LossScaleNormalStepsName == <<"l", "o", "s", "s", "_", "s", "c", "a", "l", "e", "_", "n", "o", "r", "m", "a", "l", "_", "s", "t", "e", "p", "s", ":", "0">>

\* The condition of the assertion of savable_variables.
ValidGlobalVariable(name) ==
  \/ StartsWith(name, PS_SHADOW_VAR_PREFIX \o <<"/", "v", "0", "/">>)
  \/ name \in {GlobalStepName, LossScaleName, LossScaleNormalStepsName}

\* A slip: every local variable of v0 saved, the trainable ones too.
SavedLocalVariable_AnyOfV0(name, trainable) == StartsWith(name, <<"v", "0", "/">>)

\* v.name.startswith('v0/') and v not in tf.trainable_variables()
SavedLocalVariable(name, trainable) ==
  StartsWith(name, <<"v", "0", "/">>) /\ name \notin trainable

\* savable_variables of VariableMgrDistributedReplicated.  The dict is kept as
\* the set of its items [name, var]; an item of the second loop replaces the
\* item of the first loop that has its name.
DistributedReplicated_savable_variables(graph) ==
  IF \E v \in graph.global_variables : ~ValidGlobalVariable(v)
  THEN [raised |-> "AssertionError", params |-> {}]
  ELSE LET locals == {[name |-> StripPort(v), var |-> v] :
                        v \in {l \in graph.local_variables :
                                 SavedLocalVariable(l, graph.trainable_variables)}}
           globals == {[name |-> StripPort(RemoveShadowVarPrefixIfPresent(v)), var |-> v] :
                         v \in graph.global_variables}
       IN [raised |-> NoError,
           params |-> {e \in globals : \A l \in locals : l.name # e.name} \cup locals]

\* get_post_init_ops of VariableMgrDistributedReplicated.
DistributedReplicated_get_post_init_ops(graph) ==
  LET shadow_v0 == PS_SHADOW_VAR_PREFIX \o <<"/", "v", "0">>
      Prefix(v) == StripPort(SubSeq(v, Len(shadow_v0) + 1, Len(v)))
  IN [raised |-> NoError,
      ops |-> {[copy_to |-> l, copy_from |-> v] :
                 <<v, l>> \in {x \in graph.global_variables \X graph.local_variables :
                    /\ StartsWith(x[1], shadow_v0 \o <<"/">>)
                    /\ \E i \in 0..(graph.num_gpus - 1) :
                         StripPort(x[2]) = TowerScope(i) \o Prefix(x[1])}}]

\* The graphs of Distributed-replicated: the towers' variables are local
\* (OverrideToLocalVariableIfNotPsVar), each trainable one of tower 0 has its
\* shadow among the global variables, and any of the other variables is global.
DistributedReplicatedGraphs ==
  {[cls |-> "DistributedReplicated", num_gpus |-> n,
    global_variables |-> {ShadowName(v) : v \in TowerVarNames(1, t)} \cup others,
    local_variables |-> TowerVarNames(n, t \cup nt),
    trainable_variables |-> TowerVarNames(n, t)
                              \cup {ShadowName(v) : v \in TowerVarNames(1, t)}] :
     n \in 1..MaxTowerScopes, t \in SUBSET Paths, nt \in SUBSET Paths,
     others \in SUBSET {GlobalStepName, LossScaleName, LossScaleNormalStepsName,
                        VelocityName, ShadowName(TowerVarName(1, <<"w">>))}}

Savable_variables(graph) ==
  IF graph.cls = "DistributedReplicated"
  THEN DistributedReplicated_savable_variables(graph)
  ELSE Replicated_savable_variables(graph.global_variables)

Get_post_init_ops(graph) ==
  IF graph.cls = "DistributedReplicated"
  THEN DistributedReplicated_get_post_init_ops(graph)
  ELSE Replicated_get_post_init_ops(graph.global_variables)

SaveInit ==
  /\ tf_graph \in ReplicatedGraphs \cup DistributedReplicatedGraphs
  /\ savable = NotRun
  /\ post_init_ops = NotRun
  /\ BarrierIdle
  /\ BuildIdle
  /\ TrainIdle
  /\ LossIdle

\* variable_mgr.savable_variables()
CallSavableVariables ==
  /\ savable = NotRun
  /\ savable' = <<Savable_variables(tf_graph)>>
  /\ UNCHANGED <<tf_graph, post_init_ops, barrierVars, buildVars, trainVars, lossVars>>

\* variable_mgr.get_post_init_ops()
CallGetPostInitOps ==
  /\ post_init_ops = NotRun
  /\ post_init_ops' = <<Get_post_init_ops(tf_graph)>>
  /\ UNCHANGED <<tf_graph, savable, barrierVars, buildVars, trainVars, lossVars>>

SaveNext ==
  \/ CallSavableVariables
  \/ CallGetPostInitOps

SpecSave == SaveInit /\ [][SaveNext]_vars

----
\* C1: in distributed-replicated mode no worker reads the shadow variable of
\* parameter i for broadcasting, and no replica-local copy of parameter i is
\* assigned, before the apply on the shadow variable of parameter i has
\* completed on every one of the W workers.
C1_NoReadBeforeAllApplied ==
  \A w \in Workers, i \in ParamIdx :
    /\ updated_value[<<w, i>>] # NotRun =>
         \A w2 \in Workers : <<w2, i>> \in applied
    /\ \A d \in LocalDevs :
         replica_local[<<w, d, i>>] # NotRun =>
           \A w2 \in Workers : <<w2, i>> \in applied

\* Two workers, and one of them has broadcast parameter 0 to a local copy.
C1_Witness ==
  /\ cluster.nW >= 2
  /\ \E w \in Workers, d \in LocalDevs : replica_local[<<w, d, 0>>] # NotRun


\* C14: the barrier is one per parameter index and waits only for the apply
\* of that parameter: each op of parameter i's chain (barrier, read of the
\* shadow variable, assigns to the local copies) can run as soon as the ops
\* of parameter i before it have run, whatever the applies of the other
\* parameters have done.
C14_BarrierWaitsForItsParameterOnly ==
  \A w \in Workers, i \in ParamIdx :
    /\ (<<w, i>> \in applied /\ <<w, i>> \notin arrived) => ENABLED BarrierArrive(w, i)
    /\ ((\A w2 \in Workers : <<w2, i>> \in arrived) /\ <<w, i>> \notin passed)
         => ENABLED BarrierComplete(w, i)
    /\ (<<w, i>> \in passed /\ updated_value[<<w, i>>] = NotRun) => ENABLED ReadValue(w, i)
    /\ \A d \in LocalDevs :
         (updated_value[<<w, i>>] # NotRun /\ <<w, i, d>> \notin assigned)
           => ENABLED AssignLocal(w, i, d)

\* A worker has broadcast parameter 1 to all its local copies while another
\* worker has not applied parameter 0 yet.
C14_Witness ==
  /\ cluster.nP >= 2
  /\ \E w \in Workers, w2 \in Workers :
       /\ w # w2
       /\ \A d \in LocalDevs : <<w, 1, d>> \in assigned
       /\ <<w2, 0>> \notin applied
       /\ <<w, 0>> \notin applied

\* Every op of worker w has run.
AllOpsRun(w) ==
  /\ \A i \in ParamIdx : <<w, i>> \in applied
  /\ \A i \in ParamIdx, d \in LocalDevs : <<w, i, d>> \in assigned

\* C15: each parameter i gets one apply on its shadow variable per worker, and
\* for every local device d one assignment, which writes the value of shadow
\* variable i read after the barrier into device d's variable at position i
\* (P*D assignments per worker); once all ops of a worker have run, each of
\* its local copies of parameter i holds the shadow value after all workers'
\* applies.
C15_OneApplyAndOneAssignPerReplica ==
  /\ \A i \in ParamIdx :
       shadow[i] = InitialValue(i) - SumGrads({w \in Workers : <<w, i>> \in applied}, i)
  /\ \A w \in Workers, d \in LocalDevs, i \in ParamIdx :
       /\ Len(replica_local[<<w, d, i>>]) = IF <<w, i, d>> \in assigned THEN 1 ELSE 0
       /\ <<w, i, d>> \in assigned => replica_local[<<w, d, i>>] = <<FullyUpdated(i)>>
  /\ \A w \in Workers :
       AllOpsRun(w) =>
         /\ Cardinality({a \in assigned : a[1] = w}) = cluster.nP * cluster.nD
         /\ \A d \in LocalDevs, i \in ParamIdx :
              replica_local[<<w, d, i>>] = <<FullyUpdated(i)>>

\* Two workers, two parameters and two local devices, and every op of
\* worker 0 has run.
C15_Witness ==
  /\ cluster.nW = 2
  /\ cluster.nP = 2
  /\ cluster.nD = 2
  /\ AllOpsRun(0)
----
(***************************************************************************)
(* Claims about graph construction.                                        *)
(***************************************************************************)
NumTowers == Len(grad_matrix)
ValidDevice(d) == d \in 0..(NumTowers - 1)
Preprocessed == phase \in {"preprocessed", "returned"}

CoordinatorClasses == LocalPSClasses \cup DistributedPSClasses

\* C3 as stated: apply_devices has length 1 in the coordinator modes and
\* length N in Independent, Local-replicated, Distributed all-reduce and
\* Distributed-replicated.
C3_Original ==
  Preprocessed =>
    Len(pre.apply_devices) = IF mgr.cls \in CoordinatorClasses THEN 1 ELSE NumTowers

\* C3 (amended): apply_devices has length 1 in the coordinator modes and in
\* Distributed-replicated (the one apply device is the parameter server
\* device), and length N in Independent, Local-replicated and Distributed
\* all-reduce.
C3_ApplyDevicesLength ==
  Preprocessed =>
    Len(pre.apply_devices) =
      IF mgr.cls \in CoordinatorClasses \cup {"DistributedReplicated"} THEN 1 ELSE NumTowers

\* Distributed-replicated has preprocessed the gradients of two towers.
C3_Witness ==
  /\ Preprocessed
  /\ NumTowers = 2
  /\ mgr.cls = "DistributedReplicated"
  /\ Len(pre.apply_devices) = 1

\* The sum over the towers of the k-th element of the gradient at position p.
RECURSIVE ElemSum(_, _, _)
ElemSum(t, p, k) ==
  IF t = 0 THEN 0 ELSE grad_matrix[t][p].g.elems[k] + ElemSum(t - 1, p, k)

SumOverTowers(p) ==
  Tensor(grad_matrix[1][p].g.shape,
         [k \in 1..Len(grad_matrix[1][p].g.elems) |-> ElemSum(NumTowers, p, k)])

CopyBranch ==
  /\ mgr.cls = "LocalReplicated"
  /\ mgr.all_reduce_spec = <<>>
  /\ ~benchmark_cnn.hierarchical_copy

\* C4: in Local-replicated mode with no all-reduce spec and hierarchical copy
\* off, get_gradients_to_apply(d, state)[p] is (the sum over all N towers of
\* their gradient at position p, tower d's own variable at position p), and
\* the gradient component is the same in all N lists of the state.
C4_SumWithOwnVariable ==
  (CopyBranch /\ Preprocessed) =>
    /\ Len(pre.state) = NumTowers
    /\ \A t \in 1..NumTowers :
         /\ Len(pre.state[t]) = Len(grad_matrix[t])
         /\ \A p \in 1..Len(grad_matrix[t]) : pre.state[t][p].g = pre.state[1][p].g
    /\ (phase = "returned" /\ ValidDevice(asked_device)) =>
         /\ Len(got.grads) = Len(grad_matrix[1])
         /\ \A p \in 1..Len(got.grads) :
              /\ got.grads[p].g = SumOverTowers(p)
              /\ got.grads[p].v = Var(asked_device, p - 1)

\* Tower 1 of two has been asked for, and the gradients differ between towers.
C4_Witness ==
  /\ CopyBranch
  /\ phase = "returned"
  /\ NumTowers = 2
  /\ asked_device = 1
  /\ grad_matrix[1][1].g # grad_matrix[2][1].g

\* C5: in Independent mode preprocess_device_grads returns the N replica
\* devices and the input matrix itself, and get_gradients_to_apply(i, state)
\* returns tower i's own list unchanged and in order, for i in 0..N-1.
C5_IndependentIdentity ==
  (mgr.cls = "Independent" /\ Preprocessed) =>
    /\ pre.apply_devices = [d \in 1..NumTowers |-> Gpu(d - 1)]
    /\ pre.state = grad_matrix
    /\ (phase = "returned" /\ ValidDevice(asked_device)) =>
         got.grads = grad_matrix[asked_device + 1]

\* Tower 1 of two has been asked for, and its list differs from tower 0's.
C5_Witness ==
  /\ mgr.cls = "Independent"
  /\ phase = "returned"
  /\ NumTowers = 2
  /\ asked_device = 1
  /\ got.grads # grad_matrix[1]

\* C7: constructing Distributed all-reduce with an empty spec (an empty
\* string, or one that parses to no range) and constructing Local-replicated
\* with a spec that does not parse to exactly one range each raise
\* ValueError in the constructor, and nothing is preprocessed afterwards;
\* Local-replicated with no spec is constructed without error.
C7_ConstructorErrors ==
  LET a == ctor_args.all_reduce_spec
      n == Len(ParseAllReduceSpec(a))
      rejected == /\ mgr.raised = "ValueError"
                  /\ phase = "raised"
                  /\ pre.apply_devices = <<>> /\ pre.state = <<>>
  IN phase # "start" =>
       /\ (ctor_args.cls = "DistributedAllReduce" /\ (a.empty \/ n = 0)) => rejected
       /\ (ctor_args.cls = "LocalReplicated" /\ ~a.empty /\ n # 1) => rejected
       /\ (ctor_args.cls = "LocalReplicated" /\ a.empty) =>
            (mgr.raised = NoError /\ mgr.cls = "LocalReplicated")

\* Local-replicated has been refused a hybrid spec of two ranges.
C7_Witness ==
  /\ phase = "raised"
  /\ ctor_args.cls = "LocalReplicated"
  /\ Len(ctor_args.all_reduce_spec.ranges) = 2
  /\ mgr.raised = "ValueError"

\* C8 as stated: in every class, get_gradients_to_apply with a device number
\* that is no index into apply_devices raises and returns no list; so a call
\* that returned was given an index into apply_devices.
C8_Original ==
  phase = "returned" => asked_device \in 0..(Len(pre.apply_devices) - 1)

\* The towers all hold the same gradient at position p.
SameGradient(p) == \A t \in 1..NumTowers : grad_matrix[t][p].g = grad_matrix[1][p].g

Times(n, g) == Tensor(g.shape, [k \in 1..Len(g.elems) |-> n * g.elems[k]])

MeanClasses == CoordinatorClasses \cup {"DistributedReplicated"}

\* C10: when all R towers hold the same gradient g at a position, the
\* Fetch-from-coordinator, Distributed fetch-from-PS and Distributed-replicated
\* classes return g for it (the mean), and Local-replicated returns R*g for it
\* to every tower in its copy, hierarchical-copy and repacking branches (the
\* sum).
C10_MeanVersusSum ==
  phase = "returned" =>
    \A p \in 1..Len(grad_matrix[1]) :
      SameGradient(p) =>
        /\ mgr.cls \in MeanClasses => got.grads[p].g = grad_matrix[1][p].g
        /\ (mgr.cls = "LocalReplicated" /\ mgr.all_reduce_spec = <<>>
              /\ ValidDevice(asked_device)) =>
             got.grads[p].g = Times(NumTowers, grad_matrix[1][p].g)

\* Two towers with the same non-zero gradient, aggregated by the local
\* parameter-server class.
C10_Witness ==
  /\ phase = "returned"
  /\ mgr.cls = "LocalFetchFromPS"
  /\ NumTowers = 2
  /\ SameGradient(1)
  /\ grad_matrix[1][1].g.elems = <<1>>
  /\ got.grads[1].g.elems = <<1>>

----
(***************************************************************************)
(* Claims about the all-reduce ranges and about repacking.                 *)
(***************************************************************************)
\* How often entry e occurs in a list of per-tower lists.
Occurrences(lists, e) ==
  Cardinality({tj \in UNION {{<<t, j>> : j \in 1..Len(lists[t])} : t \in 1..Len(lists)} :
                 lists[tj[1]][tj[2]] = e})

\* How often a variable occurs in a list of per-tower lists.
VarOccurrences(lists, v) ==
  Cardinality({tj \in UNION {{<<t, j>> : j \in 1..Len(lists[t])} : t \in 1..Len(lists)} :
                 lists[tj[1]][tj[2]].v = v})

\* The first range of spec that takes a gradient of the given size.
Takes(spec_tuple, size) == spec_tuple.limit < 0 \/ size <= spec_tuple.limit
FirstRange(spec, size) ==
  IF \E k \in 1..Len(spec) : Takes(spec[k], size)
  THEN CHOOSE k \in 1..Len(spec) :
         Takes(spec[k], size) /\ \A j \in 1..(k - 1) : ~Takes(spec[j], size)
  ELSE 0

\* C6: in Distributed all-reduce preprocess_device_grads the ranges are
\* processed in spec order, each taking its gradients from what the ranges
\* before it left; at the end the remainder is empty, every entry of every
\* tower has been handed to exactly one range's reduction, and it occurs
\* exactly once in that tower's list of the returned state.
C6_RangesPartitionTheGradients ==
  mgr.cls = "DistributedAllReduce" =>
    /\ pre.raised = NoError
    /\ Preprocessed =>
         /\ pre.remaining_grads = <<>>
         /\ Len(pre.this_grads) = Len(mgr.all_reduce_spec)
         /\ Len(pre.state) = NumTowers
         /\ \A t \in 1..NumTowers :
              /\ Len(pre.state[t]) = Len(grad_matrix[t])
              /\ \A p \in 1..Len(grad_matrix[t]) :
                   LET e == grad_matrix[t][p] IN
                   /\ \A k \in 1..Len(pre.this_grads) :
                        Occurrences(pre.this_grads[k], e) =
                          IF k = FirstRange(mgr.all_reduce_spec, TfSize(e.g)) THEN 1 ELSE 0
                   /\ VarOccurrences(pre.state, e.v) = 1
                   /\ \E j \in 1..Len(pre.state[t]) : pre.state[t][j].v = e.v

\* Two towers, a spec of at least two ranges, and two ranges that each took
\* gradients.
C6_Witness ==
  /\ mgr.cls = "DistributedAllReduce"
  /\ Preprocessed
  /\ NumTowers = 2
  /\ \E j, k \in 1..Len(pre.this_grads) :
       j < k /\ pre.this_grads[j] # <<>> /\ pre.this_grads[k] # <<>>

RepackBranch ==
  /\ mgr.cls = "LocalReplicated"
  /\ mgr.all_reduce_spec = <<>>
  /\ benchmark_cnn.hierarchical_copy
  /\ benchmark_cnn.gradient_repacking >= 1

\* The element count of tower t's gradients.
TotalSize(t) == SumSeq([p \in 1..Len(grad_matrix[t]) |-> TfSize(grad_matrix[t][p].g)])

\* C9: in Local-replicated mode with repack factor K >= 1, for every tower and
\* every total element count T (T < K and T not divisible by K included), the
\* gradients are split into K-1 packs of floor(T/K) elements and a last pack
\* of T - (K-1)*floor(T/K) elements, and the returned list has the length of
\* the input, its p-th gradient has the shape and size of the p-th input
\* gradient, holds the sum over the towers element for element (the input
\* itself for a single tower) and is paired with that tower's p-th variable.
C9_RepackRoundTrip ==
  RepackBranch =>
    /\ pre.raised = NoError
    /\ Preprocessed =>
         LET K == benchmark_cnn.gradient_repacking IN
         /\ Len(pre.state) = NumTowers
         /\ Len(pre.device_grad_packs) = NumTowers
         /\ \A t \in 1..NumTowers :
              /\ Len(pre.device_grad_packs[t]) = K
              /\ \A k \in 1..K :
                   TfSize(pre.device_grad_packs[t][k].g) =
                     IF k < K THEN TotalSize(t) \div K
                     ELSE TotalSize(t) - (K - 1) * (TotalSize(t) \div K)
              /\ Len(pre.state[t]) = Len(grad_matrix[t])
              /\ \A p \in 1..Len(grad_matrix[t]) :
                   /\ pre.state[t][p].g.shape = grad_matrix[t][p].g.shape
                   /\ TfSize(pre.state[t][p].g) = TfSize(grad_matrix[t][p].g)
                   /\ pre.state[t][p].g = SumOverTowers(p)
                   /\ NumTowers = 1 => pre.state[t][p].g = grad_matrix[t][p].g
                   /\ pre.state[t][p].v = grad_matrix[t][p].v

\* One tower of three elements in two gradients, repacked into two packs.
C9_Witness ==
  /\ RepackBranch
  /\ Preprocessed
  /\ benchmark_cnn.gradient_repacking = 2
  /\ NumTowers = 1
  /\ Len(grad_matrix[1]) = 2
  /\ TotalSize(1) = 3

----
\* C2: in Local-replicated and Distributed all-reduce modes, once the
\* post-init ops have run, after any number of training steps in which each
\* tower d applies get_gradients_to_apply(d, state) to its own variables,
\* every tower's copy of every parameter holds the value of tower 0's copy.
C2_ReplicasStayEqual ==
  phase \in {"synced", "stepped"} =>
    \A v \in DOMAIN var_value : var_value[v] = var_value[Var(0, v.idx)]

\* Two towers have completed a step whose gradients differed between them
\* and changed the variables.
C2_Witness ==
  /\ phase = "stepped"
  /\ steps >= 1
  /\ NumTowers = 2
  /\ grad_matrix[1][1].g # grad_matrix[2][1].g
  /\ var_value[Var(1, 0)] # 10

----
(***************************************************************************)
(* Claims about the saved variables.                                       *)
(***************************************************************************)
IsReplicated == tf_graph.cls \in ReplicatedClasses

BothReturned == savable # NotRun /\ post_init_ops # NotRun

\* The scope of a replica k >= 1: 'v' followed by a digit other than 0.
InLaterReplica(name) ==
  \E n \in 1..9 : PySplit(name, "/")[1] = TowerScope(n)

\* C11, as stated: in Local-replicated and Distributed all-reduce modes, for
\* any set of global variables, savable_variables returns no variable of a
\* replica k >= 1 and every variable of replica 0, and every global variable
\* it leaves out is the target of exactly one post-init copy, whose source is
\* the replica-0 variable with the same remaining path.
C11_Original ==
  (IsReplicated /\ BothReturned) =>
    LET params == savable[1].params
        ops == post_init_ops[1].ops
    IN /\ \A v \in params : ~InLaterReplica(v)
       /\ \A v \in tf_graph.global_variables :
            PySplit(v, "/")[1] = TowerScope(0) => v \in params
       /\ \A v \in tf_graph.global_variables \ params :
            /\ Cardinality({op \in ops : op.copy_to = v}) = 1
            /\ \A op \in ops : op.copy_to = v => op.copy_from = V0NameOf(v)
            /\ V0NameOf(v) \in tf_graph.global_variables

\* The names the assertion of Distributed-replicated lets pass.
ExpectedGlobal(name) ==
  \/ StartsWith(name, <<"p", "s", "_", "v", "a", "r", "/", "v", "0", "/">>)
  \/ name \in {<<"g", "l", "o", "b", "a", "l", "_", "s", "t", "e", "p", ":", "0">>, <<"l", "o", "s", "s", "_", "s", "c", "a", "l", "e", ":", "0">>, <<"l", "o", "s", "s", "_", "s", "c", "a", "l", "e", "_", "n", "o", "r", "m", "a", "l", "_", "s", "t", "e", "p", "s", ":", "0">>}

\* A name without its shadow prefix and without its ':0'.
SavedName(name) ==
  LET n == IF StartsWith(name, <<"p", "s", "_", "v", "a", "r", "/">>) THEN SubSeq(name, 8, Len(name)) ELSE name
  IN IF EndsWith(n, <<":", "0">>) THEN SubSeq(n, 1, Len(n) - 2) ELSE n

\* C12: in Distributed-replicated mode savable_variables fails with an
\* assertion, returning no mapping, whenever some global variable is neither
\* a shadow of a replica-0 parameter nor one of global_step, loss_scale,
\* loss_scale_normal_steps; otherwise the mapping holds every global variable
\* under its name without the shadow prefix and ':0', every non-trainable local
\* variable of replica 0 under its name without ':0', and no trainable local
\* variable and no local variable of a replica k >= 1.
C12_SavableOrAssertion ==
  (tf_graph.cls = "DistributedReplicated" /\ savable # NotRun) =>
    LET r == savable[1]
    IN IF \E v \in tf_graph.global_variables : ~ExpectedGlobal(v)
       THEN r.raised = "AssertionError" /\ r.params = {}
       ELSE /\ r.raised = NoError
            /\ \A v \in tf_graph.global_variables :
                 [name |-> SavedName(v), var |-> v] \in r.params
            /\ \A v \in tf_graph.local_variables :
                 (PySplit(v, "/")[1] = TowerScope(0)
                    /\ v \notin tf_graph.trainable_variables)
                   => [name |-> SavedName(v), var |-> v] \in r.params
            /\ \A e \in r.params :
                 e.var \in tf_graph.local_variables =>
                   /\ e.var \notin tf_graph.trainable_variables
                   /\ ~InLaterReplica(e.var)
            /\ \A e \in r.params :
                 e.var \in tf_graph.global_variables \cup tf_graph.local_variables

\* Two towers with a trainable and a non-trainable variable each, and one
\* variable outside the towers: the mapping holds the shadow, the
\* non-trainable variable of tower 0 and the variable outside the towers.
C12_Witness ==
  /\ tf_graph.cls = "DistributedReplicated"
  /\ tf_graph.num_gpus = 2
  /\ savable # NotRun
  /\ savable[1].raised = NoError
  /\ Cardinality(savable[1].params) = 3
  /\ \E e \in savable[1].params : e.var \in tf_graph.local_variables
  /\ \E v \in tf_graph.local_variables : v \in tf_graph.trainable_variables

----
(***************************************************************************)
(* Claims about automatic loss scaling.                                    *)
(***************************************************************************)
\* Some gradient of tower t (1-based) of the matrix holds a non-finite value.
TowerHasNonFinite(t) ==
  \E p \in 1..Len(grad_matrix[t]) : \E k \in 1..Len(grad_matrix[t][p].g.elems) :
    grad_matrix[t][p].g.elems[k] = NonFinite

\* get_gradients_to_apply(0, state) has returned in this run.
CalledForDevice0 == phase = "returned" \/ Len(handed) >= 1

\* C13: in Independent mode with automatic loss scaling, after
\* get_gradients_to_apply(0, state) the flag tells whether a gradient of
\* replica 0 holds a non-finite value; the calls for the devices i >= 1 leave
\* it so, whatever replica i's gradients hold; and each call returns the
\* replica's gradient list.
C13_FlagFromReplica0 ==
  (mgr.cls = "Independent" /\ enable_auto_loss_scale /\ CalledForDevice0) =>
    /\ grad_has_inf_nan = <<TowerHasNonFinite(1)>>
    /\ got.raised = NoError
    /\ got.grads = grad_matrix[asked_device + 1]

\* The call for device 1 has returned the list of replica 1, which holds a
\* non-finite gradient, and the flag says that replica 0 holds none.
C13_Witness ==
  /\ mgr.cls = "Independent"
  /\ enable_auto_loss_scale
  /\ phase = "returned"
  /\ asked_device = 1
  /\ TowerHasNonFinite(2)
  /\ ~TowerHasNonFinite(1)
  /\ grad_has_inf_nan = <<FALSE>>
  /\ got.grads = grad_matrix[2]

\* C16, as stated: with automatic loss scaling enabled, in every variant and
\* branch, the flag handed to the loss-scale step at each
\* append_apply_gradients_ops call is not the None of the constructor.
C16_Original ==
  enable_auto_loss_scale => \A k \in 1..Len(handed) : handed[k] # None

====
